---- MODULE Spec2Model ----
(***************************************************************************)
(* BagMan (src/utils/map/bagman.py): the backup of the input bag, the      *)
(* loading of the bag and the interactive edit session, as a state         *)
(* machine.  One step of the session is one accepted answer to a prompt    *)
(* of _present_menu together with everything the code does until the next  *)
(* prompt.                                                                 *)
(***************************************************************************)
EXTENDS Integers, Sequences, FiniteSets, TLC

VARIABLES
    pc,             \* where run() stands: "start", "read", a menu, "Done", "crashed"
    files,          \* the bag files on disk: path -> File(messages), or NoFile
    backups,        \* the archive names in the directory ./backups
    cwd_files,      \* archive-named files lying in the working directory
    removed,        \* every path os.remove was called on by the pruning loop
    clock,          \* datetime.utcnow(), in seconds
    backup_outcome, \* how the last backup_bag call ended
    input_path,     \* self.__input_file_path
    output_path,    \* self.__output_file_path
    items,          \* the list handed to interactive_menu
    item_idx,       \* item_idx of interactive_menu (0-based, as in the code); 0 outside
                    \* the menu of an item, where the code assigns it before reading it
    dirty,          \* self.__dirty
    file_path,      \* file_path of save_bag while it runs, NoPath otherwise
    save_from,      \* the call site of the running save_bag: "main" or "quit"; "none"
                    \* while save_bag is not running
    edits,          \* history: mutations applied since the session started
    saved_edits     \* history: the value of edits at the last completed save

vars == <<pc, files, backups, cwd_files, removed, clock, backup_outcome,
          input_path, output_path, items, item_idx, dirty,
          file_path, save_from, edits, saved_edits>>

\* ------------------------------------------------------------------ bounds
\* Mutations allowed in one session.
MaxEdits == 2
\* Distinct contents the source file takes over repeated backups.
NumFiles == 35
\* Seconds the clock may advance over repeated backups.
MaxClock == 1

\* ------------------------------------------------------- program constants
\* sorted(os.listdir(backups_dir), reverse=True)[30:]
Retention == 30
\* items[0].timestamp.secs - 60, items[-1].timestamp.secs + 60
Gap == 60

TOPIC_MOWING_AREAS == "mowing_areas"
TOPIC_NAVIGATION_AREAS == "navigation_areas"
TOPIC_DOCKING_POINT == "docking_point"
ALL_TOPICS_THAT_CAN_BE_NAMED == {TOPIC_MOWING_AREAS, TOPIC_NAVIGATION_AREAS}

\* A path of the disk: no file, or a bag file holding a sequence of messages.
NoFile == [exists |-> FALSE, msgs |-> <<>>]

File(msgs) == [exists |-> TRUE, msgs |-> msgs]
\* file_path when no call of save_bag is running.
NoPath == "<no path>"

\* message.name of a message type that has no name attribute
NoName == "<no name attribute>"

\* ----------------------------------------------------------------- entries
\* A BagMessage (topic, message, timestamp): id stands for the opaque rest of
\* the message, name for message.name, secs/nsecs for the rospy.Time.
Entry(id, topic, name, secs, nsecs) ==
    [id |-> id, topic |-> topic, name |-> name, secs |-> secs, nsecs |-> nsecs]

\* Comparison of two timestamps (secs, nsecs), as the consumer of the bag orders them.
KeyLess(a, b) == a.secs < b.secs \/ (a.secs = b.secs /\ a.nsecs < b.nsecs)

StrictlyAscending(its) ==
    \A i \in 1..Len(its), j \in 1..Len(its) : i < j => KeyLess(its[i], its[j])

\* list.pop(idx) and list.insert(idx, x), idx 0-based
Pop(its, idx) == [k \in 1..(Len(its) - 1) |-> IF k <= idx THEN its[k] ELSE its[k + 1]]

Insert(its, idx, x) ==
    [k \in 1..(Len(its) + 1) |->
        IF k <= idx THEN its[k] ELSE IF k = idx + 1 THEN x ELSE its[k - 1]]

Secs(its) == [k \in 1..Len(its) |-> its[k].secs]

Ids(its) == [k \in 1..Len(its) |-> its[k].id]

\* -------------------------------------------------- the mutations of the list
WithTime(e, secs, nsecs) == [e EXCEPT !.secs = secs, !.nsecs = nsecs]

\* the name written to every item of the list
SetName_All(its, idx, new_name) == [k \in 1..Len(its) |-> [its[k] EXCEPT !.name = new_name]]

\* items[item_idx].message.name = new_name
SetName(its, idx, new_name) == [its EXCEPT ![idx + 1].name = new_name]

\* items.pop() in place of items.pop(item_idx)
Remove_Last(its, idx) == Pop(its, Len(its) - 1)

\* items.pop(item_idx)
Remove(its, idx) == Pop(its, idx)

\* the gap taken from the selected item's own timestamp
MoveToFirst_OwnTime(its, idx) ==
    LET selected_item == [its[idx + 1] EXCEPT !.secs = its[idx + 1].secs - Gap]
    IN  Insert(Pop(its, idx), 0, selected_item)

\* selected_item.timestamp.secs = items[0].timestamp.secs - 60; pop; insert(0, ...)
MoveToFirst(its, idx) ==
    LET selected_item == [its[idx + 1] EXCEPT !.secs = its[1].secs - Gap]
    IN  Insert(Pop(its, idx), 0, selected_item)

\* the gap added to the first item's timestamp in place of the last one's
MoveToLast_FromFirst(its, idx) ==
    LET selected_item == [its[idx + 1] EXCEPT !.secs = its[1].secs + Gap]
    IN  Append(Pop(its, idx), selected_item)

\* selected_item.timestamp.secs = items[-1].timestamp.secs + 60; pop; append
MoveToLast(its, idx) ==
    LET selected_item == [its[idx + 1] EXCEPT !.secs = its[Len(its)].secs + Gap]
    IN  Append(Pop(its, idx), selected_item)

\* only the seconds exchanged, the nanoseconds left where they were
SwapWithNeighbour_SecsOnly(its, idx, d) ==
    LET neighbour     == its[idx + 1 + d]
        selected_item == [its[idx + 1] EXCEPT !.secs = neighbour.secs]
        stamped       == [its EXCEPT
                            ![idx + 1] = selected_item,
                            ![idx + 1 + d] = [neighbour EXCEPT !.secs = its[idx + 1].secs]]
    IN  Insert(Pop(stamped, idx), idx + d, selected_item)

\* The timestamps of the selected item and of its neighbour at idx + d are
\* exchanged component by component, then the selected item is popped and
\* inserted at idx + d (d = -1 for "up", +1 for "down").
SwapWithNeighbour(its, idx, d) ==
    LET old_timestamp == its[idx + 1]
        neighbour     == its[idx + 1 + d]
        selected_item == WithTime(its[idx + 1], neighbour.secs, neighbour.nsecs)
        stamped       == [its EXCEPT
                            ![idx + 1] = selected_item,
                            ![idx + 1 + d] =
                                WithTime(neighbour, old_timestamp.secs, old_timestamp.nsecs)]
    IN  Insert(Pop(stamped, idx), idx + d, selected_item)

\* the positions exchanged, the timestamps left where they were
MoveUp_KeepTimes(its, idx) == Insert(Pop(its, idx), idx - 1, its[idx + 1])

MoveUp(its, idx) == SwapWithNeighbour(its, idx, -1)

\* the timestamps exchanged, the pop and the insert left out
MoveDown_NoMove(its, idx) ==
    [its EXCEPT
        ![idx + 1] = WithTime(its[idx + 1], its[idx + 2].secs, its[idx + 2].nsecs),
        ![idx + 2] = WithTime(its[idx + 2], its[idx + 1].secs, its[idx + 1].nsecs)]

MoveDown(its, idx) == SwapWithNeighbour(its, idx, 1)

\* ------------------------------------------------------------ _present_menu
\* What the operator may type at a menu prompt.
UserInputs ==
    {"0", "1", "2", "3", "save", "quit", "name", "remove", "first", "last",
     "up", "down", "back", "yes", "no", "change",
     "SAVE", "Quit", "FIRST", "Up", "NO", "x"}

\* str.lower() on the strings of UserInputs
Lower(s) ==
    CASE s = "SAVE"   -> "save"
      [] s = "Quit"   -> "quit"
      [] s = "FIRST"  -> "first"
      [] s = "Up"     -> "up"
      [] s = "NO"     -> "no"
      [] OTHER        -> s

\* choice in choices or (ignore_case and choice.lower() in [c.lower() for c in choices])
\* _present_menu returns the string as typed, or prompts again.
Accepted(c, choices) == c \in choices \/ Lower(c) \in {Lower(k) : k \in choices}

\* str(idx) for the item keys of the main menu, and int(base_menu_choice)
IndexKeys == <<"0", "1", "2", "3">>

ItemKeys(its) == {IndexKeys[k] : k \in 1..Len(its)}

IsInt(s) == \E k \in 1..Len(IndexKeys) : IndexKeys[k] = s

IntOf(s) == (CHOOSE k \in 1..Len(IndexKeys) : IndexKeys[k] = s) - 1

\* The keys of the main menu: the items, "save" when dirty, "quit".
MainChoices(its, d) == ItemKeys(its) \cup (IF d THEN {"save"} ELSE {}) \cup {"quit"}

\* "Set name" offered for every topic
EntryChoices_NameAlways(its, idx) ==
    {"name"}
        \cup (IF idx # 0 THEN {"first", "up"} ELSE {})
        \cup (IF idx # Len(its) - 1 THEN {"last", "down"} ELSE {})
        \cup {"remove", "back"}

\* The keys of the menu of one item; a choice whose description is blank is left out.
EntryChoices(its, idx) ==
    LET is_first    == idx = 0
        is_last     == idx = Len(its) - 1
        is_nameable == its[idx + 1].topic \in ALL_TOPICS_THAT_CAN_BE_NAMED
    IN  (IF is_nameable THEN {"name"} ELSE {})
        \cup (IF ~is_first THEN {"first", "up"} ELSE {})
        \cup (IF ~is_last THEN {"last", "down"} ELSE {})
        \cup {"remove", "back"}

QuitChoices == {"save", "quit"}

OverwriteChoices == {"yes", "no", "change"}

\* What the operator may type as a new name ("" goes back).
NameInputs == {"", "Front Yard"}

\* ------------------------------------------------------------ hash_bag_file
NameCode(n) == CASE n = "" -> 0 [] n = "Front Yard" -> 1 [] OTHER -> 2

TopicCode(t) ==
    CASE t = TOPIC_MOWING_AREAS -> 0 [] t = TOPIC_NAVIGATION_AREAS -> 1 [] OTHER -> 2

\* The bytes of a bag file, as a number that differs between the contents the
\* model uses.
RECURSIVE ContentCode(_)
ContentCode(c) ==
    IF c = <<>> THEN 0
    ELSE LET n == Len(c)
             e == c[n]
         IN  ContentCode(SubSeq(c, 1, n - 1))
               + n * (e.id + e.secs + e.nsecs + NameCode(e.name) + TopicCode(e.topic))

\* The SHA-1 hex digest of the file: a fixed function of the bytes, different
\* for different bytes, in no particular order.
hash_bag_file(c) == (ContentCode(c) * 3001) % 10007

\* --------------------------------------------------------------- backup_bag
\* A file name of ./backups, <basename>_<utc>_<hash>.zip, as its "_"-separated
\* components (the extension left off, as os.path.splitext does).
ArchiveName(base, utc, h) == <<base, utc, h>>

\* split("_")[1] in place of split("_")[-1]
TrailingHash_Second(file_name) == file_name[2]

\* os.path.splitext(file_name)[0].split("_")[-1]
TrailingHash(file_name) == file_name[Len(file_name)]

existing_hashes(dir) == {TrailingHash(file_name) : file_name \in dir}

\* os.path.basename: the model's paths are files of the working directory.
Basename(path) == path

\* Where a basename sorts among the model's basenames (string comparison).
BaseRank(base) == CASE base = "map.bag" -> 1 [] base = "new.bag" -> 2 [] OTHER -> 3

\* String comparison of two archive names: the basename first, then the
\* fixed-width timestamp, then the fixed-width hex digest.
NameLess(a, b) ==
    \/ BaseRank(a[1]) < BaseRank(b[1])
    \/ BaseRank(a[1]) = BaseRank(b[1]) /\ a[2] < b[2]
    \/ BaseRank(a[1]) = BaseRank(b[1]) /\ a[2] = b[2] /\ a[3] < b[3]

\* sorted(os.listdir(backups_dir), reverse=True)[30:]
RECURSIVE old_backups_to_remove(_)
old_backups_to_remove(dir) ==
    IF Cardinality(dir) <= Retention THEN <<>>
    ELSE LET least == CHOOSE x \in dir : \A y \in dir : x = y \/ NameLess(x, y)
         IN  Append(old_backups_to_remove(dir \ {least}), least)

\* The path os.remove(old_backup) names: the bare file name is resolved
\* against the working directory.
RemovePath(old_backup) == [dir |-> ".", name |-> old_backup]

\* for old_backup in old_backups_to_remove: os.remove(old_backup)
\* os.remove raises FileNotFoundError when the working directory has no such file.
RECURSIVE PruneLoop(_, _, _)
PruneLoop(todo, cwd, rem) ==
    IF todo = <<>> THEN [cwd_files |-> cwd, removed |-> rem, raised |-> FALSE]
    ELSE LET old_backup == Head(todo)
             rem2       == rem \cup {RemovePath(old_backup)}
         IN  IF old_backup \in cwd
             THEN PruneLoop(Tail(todo), cwd \ {old_backup}, rem2)
             ELSE [cwd_files |-> cwd, removed |-> rem2, raised |-> TRUE]

\* backup_bag(file_path): what it leaves behind and how it ended.
backup_bag(path, fs, dir, cwd, rem, utcnow) ==
    IF ~fs[path].exists
    THEN \* open() in hash_bag_file raises
         [backups |-> dir, cwd_files |-> cwd, removed |-> rem, outcome |-> "raised"]
    ELSE LET file_hash == hash_bag_file(fs[path].msgs)
         IN  IF file_hash \in existing_hashes(dir)
             THEN [backups |-> dir, cwd_files |-> cwd, removed |-> rem,
                   outcome |-> "skipped"]
             ELSE LET written == dir \cup {ArchiveName(Basename(path), utcnow, file_hash)}
                      pruned  == PruneLoop(old_backups_to_remove(written), cwd, rem)
                  IN  [backups |-> written, cwd_files |-> pruned.cwd_files,
                       removed |-> pruned.removed,
                       outcome |-> IF pruned.raised THEN "raised" ELSE "written"]

\* --------------------------------------------------------------- the files
Paths == {"map.bag", "other.bag", "new.bag"}

BagA ==
    << Entry(1, TOPIC_MOWING_AREAS, "", 100, 5),
       Entry(2, TOPIC_NAVIGATION_AREAS, "", 200, 7),
       Entry(3, TOPIC_DOCKING_POINT, NoName, 300, 0) >>

BagB ==
    << Entry(4, TOPIC_MOWING_AREAS, "Back", 150, 0),
       Entry(5, TOPIC_MOWING_AREAS, "", 250, 0) >>

\* Two messages recorded with the same timestamp.
BagT ==
    << Entry(6, TOPIC_MOWING_AREAS, "", 100, 5),
       Entry(7, TOPIC_NAVIGATION_AREAS, "", 100, 5) >>

\* The k-th of the distinct contents the source file takes over time.
DistinctBag(k) == << Entry(1, TOPIC_MOWING_AREAS, "", k, 0) >>

\* os.path.exists(path)
Exists(path, fs) == fs[path].exists

\* read_bag(file_path): the existence check is made on file_path, the bag that
\* is opened is 'map.bag' of the working directory.  NoFile stands for the
\* exception either of them raises; otherwise the messages read are returned.
read_bag(path, fs) == IF ~Exists(path, fs) THEN NoFile ELSE fs["map.bag"]

\* ------------------------------------------------------------------- run()
TypeOK ==
    /\ pc \in {"start", "read", "Browsing", "EntryMenu", "ConfirmOverwrite",
               "ConfirmQuitUnsaved", "Done", "crashed"}
    /\ input_path \in Paths /\ output_path \in Paths
    /\ dirty \in BOOLEAN
    /\ item_idx \in 0..3
    /\ edits \in 0..(MaxEdits + 1) /\ saved_edits \in 0..edits
    /\ backup_outcome \in {"none", "skipped", "written", "raised"}

\* The disk with map.bag and other.bag as given; new.bag never exists at first.
Disk(m, o) ==
    [p \in Paths |-> IF p = "map.bag" THEN m ELSE IF p = "other.bag" THEN o ELSE NoFile]

Start(m, o, inp, out, dir) ==
    [files |-> Disk(m, o), input |-> inp, output |-> out, backups |-> dir]

\* The command lines and disks run() is started on.
Starts ==
    { \* map.bag edited in place, never backed up before
      Start(File(BagA), File(BagB), "map.bag", "map.bag", {}),
      \* another bag given as input, a new file as output
      Start(File(BagT), File(BagB), "other.bag", "new.bag",
            {ArchiveName("map.bag", 0, hash_bag_file(BagT))}),
      \* a bag with two equal timestamps, already backed up
      Start(File(BagT), NoFile, "map.bag", "other.bag",
            {ArchiveName("map.bag", 0, hash_bag_file(BagT))}),
      \* no map.bag in the working directory
      Start(NoFile, File(BagB), "other.bag", "other.bag", {}),
      \* the input file does not exist
      Start(File(BagA), NoFile, "new.bag", "map.bag", {}) }

Init ==
    /\ pc = "start"
    /\ \E st \in Starts :
          /\ files = st.files
          /\ backups = st.backups
          /\ input_path = st.input
          /\ output_path = st.output
    /\ cwd_files = {}
    /\ removed = {}
    /\ clock = 1
    /\ backup_outcome = "none"
    /\ items = <<>>
    /\ item_idx = 0
    /\ dirty = FALSE
    /\ file_path = NoPath
    /\ save_from = "none"
    /\ edits = 0
    /\ saved_edits = 0

session_vars == <<items, item_idx, dirty, file_path, save_from, edits, saved_edits>>

backup_vars == <<backups, cwd_files, removed, backup_outcome>>

\* The effect of one call backup_bag(path).
DoBackup(path) ==
    LET r == backup_bag(path, files, backups, cwd_files, removed, clock)
    IN  /\ backups' = r.backups
        /\ cwd_files' = r.cwd_files
        /\ removed' = r.removed
        /\ backup_outcome' = r.outcome

\* the exception of backup_bag swallowed: run() goes on to read the bag
RunBackup_GoOn ==
    /\ pc = "start"
    /\ DoBackup(input_path)
    /\ pc' = "read"
    /\ UNCHANGED <<files, clock, input_path, output_path, session_vars>>

\* self.backup_bag(file_path=self.__input_file_path); an exception ends run().
RunBackup ==
    /\ pc = "start"
    /\ DoBackup(input_path)
    /\ pc' = IF backup_outcome' = "raised" THEN "crashed" ELSE "read"
    /\ UNCHANGED <<files, clock, input_path, output_path, session_vars>>

\* The main menu is drawn: sorted([len(item.topic) for item in items])[-1]
\* raises IndexError on an empty list.
MainMenuOf(its) == IF its = <<>> THEN "crashed" ELSE "Browsing"

\* self.interactive_menu(items=self.read_bag(file_path=self.__input_file_path))
ReadBag ==
    /\ pc = "read"
    /\ LET loaded == read_bag(input_path, files)
       IN  IF ~loaded.exists
           THEN pc' = "crashed" /\ items' = items
           ELSE items' = loaded.msgs /\ pc' = MainMenuOf(loaded.msgs)
    /\ UNCHANGED <<files, clock, input_path, output_path, backup_vars,
                   item_idx, dirty, file_path, save_from, edits, saved_edits>>

\* ---------------------------------------------------------------- save_bag
\* What the operator may type as the new output path.
NewPaths == {"other.bag", "new.bag"}

\* the "return" after the save on quit replaced by "continue"
ReturnFromSave_Continue(from, its) == MainMenuOf(its)

\* Where save_bag returns to: the main menu loop ("continue"), or the
\* "return" that follows the unsaved-changes confirmation.
ReturnFromSave(from, its) == IF from = "main" THEN MainMenuOf(its) ELSE "Done"

\* the write without self.__dirty = False
WriteBag_KeepDirty(path, from) ==
    /\ files' = [files EXCEPT ![path] = File(items)]
    /\ dirty' = dirty
    /\ saved_edits' = edits
    /\ file_path' = NoPath
    /\ save_from' = "none"
    /\ pc' = ReturnFromSave(from, items)

\* with rosbag.Bag(file_path, "w") as out_bag: write every item;
\* self.__dirty = False
WriteBag(path, from) ==
    /\ files' = [files EXCEPT ![path] = File(items)]
    /\ dirty' = FALSE
    /\ saved_edits' = edits
    /\ file_path' = NoPath
    /\ save_from' = "none"
    /\ pc' = ReturnFromSave(from, items)

\* the overwrite menu shown without asking os.path.exists
SaveLoop_AlwaysAsk(path, from) ==
    /\ pc' = "ConfirmOverwrite"
    /\ file_path' = path
    /\ save_from' = from
    /\ UNCHANGED <<files, dirty, saved_edits>>

\* One turn of the loop of save_bag: the overwrite menu when the path exists,
\* the write when it does not.
SaveLoop(path, from) ==
    IF Exists(path, files)
    THEN /\ pc' = "ConfirmOverwrite"
         /\ file_path' = path
         /\ save_from' = from
         /\ UNCHANGED <<files, dirty, saved_edits>>
    ELSE WriteBag(path, from)

\* --------------------------------------------------------------- main menu
MainSave ==
    /\ pc = "Browsing"
    /\ \E c \in UserInputs :
          /\ Accepted(c, MainChoices(items, dirty))
          /\ c = "save"
    /\ SaveLoop(output_path, "main")
    /\ UNCHANGED <<clock, input_path, output_path, backup_vars, items, item_idx, edits>>

\* quit without the check of self.__dirty
MainQuit_NoConfirm ==
    /\ pc = "Browsing"
    /\ \E c \in UserInputs :
          /\ Accepted(c, MainChoices(items, dirty))
          /\ c = "quit"
    /\ pc' = "Done"
    /\ UNCHANGED <<files, clock, input_path, output_path, backup_vars, items, item_idx,
                   dirty, file_path, save_from, edits, saved_edits>>

MainQuit ==
    /\ pc = "Browsing"
    /\ \E c \in UserInputs :
          /\ Accepted(c, MainChoices(items, dirty))
          /\ c = "quit"
    /\ pc' = IF dirty THEN "ConfirmQuitUnsaved" ELSE "Done"
    /\ UNCHANGED <<files, clock, input_path, output_path, backup_vars, items, item_idx,
                   dirty, file_path, save_from, edits, saved_edits>>

\* item_idx = int(base_menu_choice): ValueError for an accepted choice that is
\* neither "save", "quit" nor a number.
MainSelect ==
    /\ pc = "Browsing"
    /\ \E c \in UserInputs :
          /\ Accepted(c, MainChoices(items, dirty))
          /\ c \notin {"save", "quit"}
          /\ IF IsInt(c)
             THEN item_idx' = IntOf(c) /\ pc' = "EntryMenu"
             ELSE item_idx' = item_idx /\ pc' = "crashed"
    /\ UNCHANGED <<files, clock, input_path, output_path, backup_vars, items,
                   dirty, file_path, save_from, edits, saved_edits>>

\* -------------------------------------------------------- the menu of an item
\* The operator's answer c is accepted by the menu of the selected item.
EntryChoice(c) ==
    /\ pc = "EntryMenu"
    /\ Accepted(c, EntryChoices(items, item_idx))

\* A mutation of the list: the new list, the new index, where the session goes.
Mutate(its, idx, next) ==
    /\ edits < MaxEdits
    /\ items' = its
    /\ item_idx' = idx
    /\ dirty' = TRUE
    /\ edits' = edits + 1
    /\ pc' = next
    /\ UNCHANGED <<files, clock, input_path, output_path, backup_vars,
                   file_path, save_from, saved_edits>>

EntryBack ==
    /\ EntryChoice("back")
    /\ pc' = "Browsing"
    /\ item_idx' = 0
    /\ UNCHANGED <<files, clock, input_path, output_path, backup_vars, items,
                   dirty, file_path, save_from, edits, saved_edits>>

EntrySetName ==
    /\ EntryChoice("name")
    /\ \E new_name \in NameInputs :
          IF new_name # ""
          THEN Mutate(SetName(items, item_idx, new_name), item_idx, "EntryMenu")
          ELSE UNCHANGED <<pc, files, clock, input_path, output_path, backup_vars, items,
                           item_idx, dirty, file_path, save_from, edits, saved_edits>>

EntryRemove ==
    /\ EntryChoice("remove")
    /\ Mutate(Remove(items, item_idx), 0, MainMenuOf(Remove(items, item_idx)))

EntryMoveToFirst ==
    /\ EntryChoice("first")
    /\ Mutate(MoveToFirst(items, item_idx), 0, "EntryMenu")

EntryMoveToLast ==
    /\ EntryChoice("last")
    /\ Mutate(MoveToLast(items, item_idx), Len(items) - 1, "EntryMenu")

EntryMoveUp ==
    /\ EntryChoice("up")
    /\ Mutate(MoveUp(items, item_idx), item_idx - 1, "EntryMenu")

EntryMoveDown ==
    /\ EntryChoice("down")
    /\ Mutate(MoveDown(items, item_idx), item_idx + 1, "EntryMenu")

EntryKeys == {"back", "name", "remove", "first", "last", "up", "down"}

\* An accepted answer that equals none of the compared strings: no branch is
\* taken and the menu of the item is shown again.
EntryOther ==
    /\ \E c \in UserInputs : c \notin EntryKeys /\ EntryChoice(c)
    /\ UNCHANGED <<pc, files, clock, input_path, output_path, backup_vars, items, item_idx,
                   dirty, file_path, save_from, edits, saved_edits>>

\* ------------------------------------------- "You have unsaved changes!"
QuitChoice(c) ==
    /\ pc = "ConfirmQuitUnsaved"
    /\ Accepted(c, QuitChoices)

QuitSave ==
    /\ QuitChoice("save")
    /\ SaveLoop(output_path, "quit")
    /\ UNCHANGED <<clock, input_path, output_path, backup_vars, items, item_idx, edits>>

QuitDiscard ==
    /\ QuitChoice("quit")
    /\ pc' = "Done"
    /\ UNCHANGED <<files, clock, input_path, output_path, backup_vars, items, item_idx,
                   dirty, file_path, save_from, edits, saved_edits>>

\* else: continue
QuitOther ==
    /\ \E c \in UserInputs : c \notin QuitChoices /\ QuitChoice(c)
    /\ pc' = "Browsing"
    /\ UNCHANGED <<files, clock, input_path, output_path, backup_vars, items, item_idx,
                   dirty, file_path, save_from, edits, saved_edits>>

\* ----------------------------- "Are you sure you want to overwrite ...?"
OverwriteChoice(c) ==
    /\ pc = "ConfirmOverwrite"
    /\ Accepted(c, OverwriteChoices)

OverwriteYes ==
    /\ OverwriteChoice("yes")
    /\ WriteBag(file_path, save_from)
    /\ UNCHANGED <<clock, input_path, output_path, backup_vars, items, item_idx, edits>>

\* "no" leaving the loop like "yes" (break in place of return)
OverwriteNo_Break ==
    /\ OverwriteChoice("no")
    /\ WriteBag(file_path, save_from)
    /\ UNCHANGED <<clock, input_path, output_path, backup_vars, items, item_idx, edits>>

\* "No, discard changes": save_bag returns without writing.
OverwriteNo ==
    /\ OverwriteChoice("no")
    /\ pc' = ReturnFromSave(save_from, items)
    /\ file_path' = NoPath
    /\ save_from' = "none"
    /\ UNCHANGED <<files, clock, input_path, output_path, backup_vars, items, item_idx,
                   dirty, edits, saved_edits>>

\* file_path = os.path.abspath(input("> ")); continue
OverwriteChange ==
    /\ OverwriteChoice("change")
    /\ \E new_path \in NewPaths : SaveLoop(new_path, save_from)
    /\ UNCHANGED <<clock, input_path, output_path, backup_vars, items, item_idx, edits>>

\* An accepted answer that equals none of the compared strings: the loop of
\* save_bag turns again with the same path, which still exists.
OverwriteOther ==
    /\ \E c \in UserInputs : c \notin OverwriteChoices /\ OverwriteChoice(c)
    /\ UNCHANGED <<pc, files, clock, input_path, output_path, backup_vars, items, item_idx,
                   dirty, file_path, save_from, edits, saved_edits>>

Next ==
    \/ RunBackup
    \/ ReadBag
    \/ MainSave
    \/ MainQuit
    \/ MainSelect
    \/ EntryBack
    \/ EntrySetName
    \/ EntryRemove
    \/ EntryMoveToFirst
    \/ EntryMoveToLast
    \/ EntryMoveUp
    \/ EntryMoveDown
    \/ EntryOther
    \/ QuitSave
    \/ QuitDiscard
    \/ QuitOther
    \/ OverwriteYes
    \/ OverwriteNo
    \/ OverwriteChange
    \/ OverwriteOther

Spec == Init /\ [][Next]_vars

\* ------------------------------------------- backup_bag called over and over
\* backup_bag(map.bag) is called again and again while the operator's map
\* changes between the calls and time passes.

\* A copy of the first archive that lies in the working directory.
StrayCopy == ArchiveName("map.bag", 0, hash_bag_file(DistinctBag(1)))

InitBackup ==
    /\ pc = "start"
    /\ files = Disk(File(DistinctBag(1)), NoFile)
    /\ backups = {}
    /\ cwd_files \in {{}, {StrayCopy}}
    /\ removed = {}
    /\ clock = 0
    /\ backup_outcome = "none"
    /\ input_path = "map.bag"
    /\ output_path = "map.bag"
    /\ items = <<>>
    /\ item_idx = 0
    /\ dirty = FALSE
    /\ file_path = NoPath
    /\ save_from = "none"
    /\ edits = 0
    /\ saved_edits = 0

\* The number of distinct contents of map.bag archived so far.
Archived == Cardinality(backups)

\* The operator records a new map, or puts the first one back.
EditSource ==
    /\ \E k \in {1, Archived + 1} :
          /\ k <= NumFiles
          /\ files' = [files EXCEPT !["map.bag"] = File(DistinctBag(k))]
    /\ UNCHANGED <<pc, clock, input_path, output_path, backup_vars, session_vars>>

Tick ==
    /\ clock < MaxClock
    /\ clock' = clock + 1
    /\ UNCHANGED <<pc, files, input_path, output_path, backup_vars, session_vars>>

BackupAgain ==
    /\ DoBackup(input_path)
    /\ UNCHANGED <<pc, files, clock, input_path, output_path, session_vars>>

NextBackup ==
    \/ EditSource
    \/ Tick
    \/ BackupAgain

SpecBackup == InitBackup /\ [][NextBackup]_vars

\* ================================================================== claims
\* The states in which interactive_menu is running.
InSession == pc \in {"Browsing", "EntryMenu", "ConfirmOverwrite", "ConfirmQuitUnsaved"}

\* C1: a list whose timestamps (secs, nsecs) are strictly ascending by
\* position stays so under every operation of the session (rename, remove,
\* the four moves, save): position order is ascending timestamp order and no
\* two entries have equal timestamps.
C1_OrderPreserved ==
    [][(InSession /\ StrictlyAscending(items)) => StrictlyAscending(items')]_vars

\* C1 witness: two moves later the three entries stand in another order,
\* still strictly ascending.
C1_Witness ==
    /\ pc = "EntryMenu"
    /\ edits = 2
    /\ Ids(items) = <<3, 2, 1>>
    /\ StrictlyAscending(items)

\* C2: move-to-first on the entry at an index > 0 of a strictly ascending
\* list of more than one entry puts that entry at position 0 with a timestamp
\* strictly below every other entry's, position order being timestamp order;
\* seconds [100, 200, 300] and index 2 give [40, 100, 200].
C2_MoveToFirst ==
    [][(EntryMoveToFirst /\ Len(items) > 1 /\ item_idx > 0 /\ StrictlyAscending(items))
        => /\ items'[1].id = items[item_idx + 1].id
           /\ \A j \in 2..Len(items') : KeyLess(items'[1], items'[j])
           /\ StrictlyAscending(items')
           /\ (Secs(items) = <<100, 200, 300>> /\ item_idx = 2)
                 => Secs(items') = <<40, 100, 200>>]_vars

\* C2 witness: the third entry of [100, 200, 300] was moved to the front.
C2_Witness ==
    /\ pc = "EntryMenu"
    /\ edits = 1
    /\ item_idx = 0
    /\ Ids(items) = <<3, 1, 2>>
    /\ Secs(items) = <<40, 100, 200>>

\* C3: the entries the session starts with are the entries stored in the
\* file at the input path, the file backup was invoked on.
C3_LoadsInputPath ==
    (pc = "Browsing" /\ edits = 0) => items = files[input_path].msgs

\* The digest an archive name ends with.
DigestOf(name) == name[3]

\* C4: the backup directory never holds two archives with the same digest,
\* and a backup of a file whose digest an archive name already ends with
\* writes nothing and deletes nothing.
C4_OneArchivePerDigest ==
    /\ [](\A a \in backups, b \in backups : DigestOf(a) = DigestOf(b) => a = b)
    /\ [][(/\ BackupAgain
           /\ \E a \in backups : DigestOf(a) = hash_bag_file(files[input_path].msgs))
          => (backups' = backups /\ cwd_files' = cwd_files /\ removed' = removed)]_vars

\* C4 witness: the first map was put back and backed up again at a later
\* second, after other maps were archived; the backup was skipped.
C4_Witness ==
    /\ backup_outcome = "skipped"
    /\ files["map.bag"] = File(DistinctBag(1))
    /\ clock = 1
    /\ Archived = 3
    /\ ArchiveName("map.bag", 0, hash_bag_file(DistinctBag(1))) \in backups

\* C5: every backup completes, and after a backup that wrote an archive the
\* backup directory holds at most 30 entries.
C5_KeepsThirty ==
    /\ backup_outcome # "raised"
    /\ backup_outcome = "written" => Cardinality(backups) <= Retention

\* C6: every path the pruning step deletes, or tries to delete, lies in the
\* backup directory.
C6_PrunesInBackupDir == \A r \in removed : r.dir = "backups"

\* C7: the files on disk change only in a save that ran to its write, which
\* puts the in-memory entries into the path being saved; quitting without
\* saving and answering "no" to the overwrite question change no file.
C7_OnlySaveWrites ==
    [][/\ QuitDiscard => files' = files
       /\ OverwriteNo => files' = files
       /\ files' # files =>
             /\ MainSave \/ QuitSave \/ OverwriteYes \/ OverwriteChange
             /\ \E p \in Paths : files' = [files EXCEPT ![p] = File(items)]]_vars

\* C7 witness: the session ended with unsaved mutations and map.bag, the
\* output path, still holds what it held at the start.
C7_Witness ==
    /\ pc = "Done"
    /\ dirty
    /\ edits = 2
    /\ saved_edits = 0
    /\ output_path = "map.bag"
    /\ files["map.bag"] = File(BagA)
    /\ items # BagA

\* C8: dirty is true exactly when a mutation was applied since the session
\* started or since the last completed save.
C8_DirtyIffUnsaved == dirty <=> (edits > saved_edits)

\* C8 witness: a mutation followed a completed save, and the session is
\* dirty in the main menu.
C8_Witness ==
    /\ pc = "Browsing"
    /\ dirty
    /\ saved_edits = 1
    /\ edits = 2

\* C9 as claimed: the moved entry takes the whole timestamp of the edge
\* entry, 60 seconds earlier (first) or later (last): its nanoseconds are the
\* edge entry's.
C9_EdgeKeyFullPair ==
    [][/\ EntryMoveToFirst =>
             /\ items'[1].secs = items[1].secs - 60
             /\ items'[1].nsecs = items[1].nsecs
       /\ EntryMoveToLast =>
             /\ items'[Len(items')].secs = items[Len(items)].secs + 60
             /\ items'[Len(items')].nsecs = items[Len(items)].nsecs]_vars

\* C9 amended: the moved entry takes the seconds of the edge entry, 60 less
\* (first) or 60 more (last), and keeps its own nanoseconds.
C9_EdgeKeySecsOnly ==
    [][/\ EntryMoveToFirst =>
             /\ items'[1].id = items[item_idx + 1].id
             /\ items'[1].secs = items[1].secs - 60
             /\ items'[1].nsecs = items[item_idx + 1].nsecs
       /\ EntryMoveToLast =>
             /\ items'[Len(items')].id = items[item_idx + 1].id
             /\ items'[Len(items')].secs = items[Len(items)].secs + 60
             /\ items'[Len(items')].nsecs = items[item_idx + 1].nsecs]_vars

\* C9 witness: the first entry (nanoseconds 5) was moved behind the last one
\* (nanoseconds 0) and kept its nanoseconds.
C9_Witness ==
    /\ pc = "EntryMenu"
    /\ edits = 1
    /\ Ids(items) = <<2, 3, 1>>
    /\ items[3].secs = 360
    /\ items[3].nsecs = 5
    /\ items[2].nsecs = 0

\* C10: remove takes exactly the entry at the index out of the list: the
\* list is one shorter and the other entries keep their timestamps, their
\* payloads and their order.
C10_RemoveFrame ==
    [][EntryRemove =>
          /\ Len(items') = Len(items) - 1
          /\ \A k \in 1..Len(items') :
                items'[k] = IF k <= item_idx THEN items[k] ELSE items[k + 1]]_vars

\* C10 witness: the middle entry of three was removed.
C10_Witness ==
    /\ pc = "Browsing"
    /\ edits = 1
    /\ items = <<BagA[1], BagA[3]>>

\* C11: a rename to a non-empty name sets the name of the selected entry to
\* that name and changes nothing else: no other entry, no timestamp, no
\* position.
C11_RenameFrame ==
    [][(EntrySetName /\ edits' # edits)
        => /\ Len(items') = Len(items)
           /\ items'[item_idx + 1] = [items[item_idx + 1] EXCEPT !.name = "Front Yard"]
           /\ \A k \in 1..Len(items) : k # item_idx + 1 => items'[k] = items[k]
           /\ item_idx' = item_idx]_vars

\* C11 witness: the second of three entries was renamed.
C11_Witness ==
    /\ pc = "EntryMenu"
    /\ edits = 1
    /\ items = [BagA EXCEPT ![2].name = "Front Yard"]

\* C12: after move-up of an entry that is not first, move-down in the same
\* menu is offered and puts the entries back into the positions they had;
\* likewise move-up after move-down of an entry that is not last.
C12_UpDownRoundTrip ==
    [][/\ EntryMoveUp =>
             /\ "down" \in EntryChoices(items', item_idx')
             /\ Ids(MoveDown(items', item_idx')) = Ids(items)
       /\ EntryMoveDown =>
             /\ "up" \in EntryChoices(items', item_idx')
             /\ Ids(MoveUp(items', item_idx')) = Ids(items)]_vars

\* C12 witness: the second entry was moved up and down again, and the list
\* is the loaded one.
C12_Witness ==
    /\ pc = "EntryMenu"
    /\ edits = 2
    /\ item_idx = 1
    /\ items = BagA

\* C13: the session runs, mutates entries and writes files only after
\* backup_bag ended without an exception, having written an archive or found
\* the digest of the input file; when backup_bag raised, no session started.
C13_BackupFirst ==
    /\ backup_outcome = "none" => pc = "start" /\ items = <<>> /\ edits = 0
    /\ backup_outcome = "raised" => pc = "crashed" /\ items = <<>> /\ edits = 0
    /\ pc = "read" =>
          \E a \in backups : DigestOf(a) = hash_bag_file(files[input_path].msgs)
    /\ (InSession \/ pc = "Done") => backup_outcome \in {"written", "skipped"}

\* C13 witness: an entry was mutated in a session that followed a backup
\* which wrote an archive.
C13_Witness ==
    /\ pc = "EntryMenu"
    /\ edits = 1
    /\ dirty
    /\ backup_outcome = "written"

C15_NoCrashOnAnswer == [][pc = "Browsing" => pc' # "crashed"]_vars

\* C16: after "remove" the session is in the main menu, also when the
\* removed entry was the only one left.
C16_RemoveToBrowsing == [][EntryRemove => pc' = "Browsing"]_vars

C19_SwapFrame ==
    [][\A d \in {-1, 1} :
          (IF d = -1 THEN EntryMoveUp ELSE EntryMoveDown) =>
             LET i == item_idx + 1
             IN  /\ Len(items') = Len(items)
                 /\ items'[i + d] = WithTime(items[i], items[i + d].secs, items[i + d].nsecs)
                 /\ items'[i] = WithTime(items[i + d], items[i].secs, items[i].nsecs)
                 /\ \A k \in 1..Len(items) : k \notin {i, i + d} => items'[k] = items[k]
                 /\ item_idx' = item_idx + d
                 /\ items'[item_idx' + 1].id = items[i].id]_vars

\* C19 witness: the first entry was moved down; the timestamps stand where
\* they stood.
C19_Witness ==
    /\ pc = "EntryMenu"
    /\ edits = 1
    /\ item_idx = 1
    /\ Ids(items) = <<2, 1, 3>>
    /\ Secs(items) = <<100, 200, 300>>
    /\ items[1].nsecs = 5 /\ items[2].nsecs = 7

Nameable(e) == e.topic \in ALL_TOPICS_THAT_CAN_BE_NAMED

\* C20: no rename is applied to an entry that is not nameable, no move-up or
\* move-to-first to the entry at position 0, no move-down or move-to-last to
\* the entry at the last position; the name of an entry that is not nameable
\* never changes and no step changes the timestamp of the entry of a
\* single-entry list.
C20_MenuFilters ==
    [][/\ (EntrySetName /\ edits' # edits) => Nameable(items[item_idx + 1])
       /\ (EntryMoveUp \/ EntryMoveToFirst) => item_idx > 0
       /\ (EntryMoveDown \/ EntryMoveToLast) => item_idx < Len(items) - 1
       /\ \A i \in 1..Len(items), j \in 1..Len(items') :
             (items[i].id = items'[j].id /\ ~Nameable(items[i]))
                => items'[j].name = items[i].name
       /\ (InSession /\ Len(items) = 1 /\ Len(items') = 1)
             => Secs(items') = Secs(items) /\ items'[1].nsecs = items[1].nsecs]_vars

\* C20 witness: the menu of the only entry left, which offers no move.
C20_Witness ==
    /\ pc = "EntryMenu"
    /\ Len(items) = 1
    /\ edits = 1
    /\ EntryChoices(items, item_idx) = {"name", "remove", "back"}

\* C21: move-up or move-down applied to two adjacent entries with equal
\* timestamps (secs and nsecs) leaves the two with distinct timestamps in the
\* order of their new positions: the entry now earlier has the strictly
\* smaller one.
C21_TieBroken ==
    [][\A d \in {-1, 1} :
          ((IF d = -1 THEN EntryMoveUp ELSE EntryMoveDown)
             /\ items[item_idx + 1].secs = items[item_idx + 1 + d].secs
             /\ items[item_idx + 1].nsecs = items[item_idx + 1 + d].nsecs)
          => LET lo == IF d = -1 THEN item_idx ELSE item_idx + 1
             IN  KeyLess(items'[lo], items'[lo + 1])]_vars

====
